---- MODULE Spec2Model ----
(***************************************************************************)
(* State-machine model of the three search clients of the repository:      *)
(*   TwitterSearchAPI      (src/src/twitter/twitter_api.py)                *)
(*   IndeedJobSearchAPI    (src/src/indeed/indeed_api.py)                  *)
(*   YelpBusinessSearchAPI (src/src/yelp/yelp_api.py)                      *)
(* One behaviour constructs one client and drives one search_all           *)
(* generator.  The remote site is the environment: every response (status, *)
(* number of records, continuation signal) is a nondeterministic choice.   *)
(* The consumer of the generator is modelled by the variable demand: the   *)
(* generator body only runs between a next() and the following yield.      *)
(* A second specification, NormSpec, calls the normalisation functions on   *)
(* their own, on partial raw records.                                       *)
(***************************************************************************)
EXTENDS Integers, Sequences, FiniteSets, TLC

\* ------------------------------------------------------------------ bounds
\* every max_results from 0 to MaxSmallM is tried
MaxSmallM == 3
\* the max_results of the job-search scenario, tried as well
ScenarioMax == 15
\* how many records beyond the requested batch size a response may carry
MaxExtra == 1
\* number of batches after which the model stops following a Twitter run (the
\* batches of an Indeed or Yelp run are bounded by max_results)
MaxBatches == 4

\* ------------------------------------------------------- program constants
TwitterPageSize == 20
IndeedPageSize == 10
YelpPageSize == 10

Sites == {"twitter", "indeed", "yelp"}
None == "None"
\* token values handed out by the sites / passed by the caller
SiteToken == "tok"
CallerToken == "gt"
Cursors == {"c1", "c2"}

VARIABLES
    site,               \* which client class this behaviour instantiates
    pc,                 \* control position of the program
    headers,            \* self.headers, a mapping name -> value
    clientHeaders,      \* the header set held by self.client (httpx.Client)
    csrf_token,         \* self.csrf_token (Indeed meta tag token, Yelp token)
    indeed_csrf_token,  \* self.indeed_csrf_token
    max_results,        \* search_all argument
    results_count,      \* search_all local
    batch_size,         \* search_all local
    cursor,             \* Twitter search_all local
    page,               \* Indeed search_all local
    offset,             \* Yelp search_all local
    items,              \* length of the list the for loop iterates over
    idx,                \* number of list elements the for loop has taken
    shape,              \* shape of the elements of that list
    has_next_page,      \* Indeed search_all local
    total,              \* Yelp search_all local
    caller,             \* Yelp: which call of search() is executing
    demand,             \* TRUE between a next() of the consumer and the yield
    asked,              \* number of next() calls of the consumer in this run
    \* ---- history variables (observations, never read by the program)
    paced,              \* a Rate Limiter call happened since the last request
    bootReq,            \* the bootstrap request, or NoRequest
    lastReq,            \* the last search request sent
    batchReqs,          \* the requests of the current batch, in order
    nReq,               \* number of search requests sent in this run
    batchNo,            \* number of batches started in this run
    requestedBefore,    \* sum of the batch sizes requested by earlier batches
    yielded,            \* number of records yielded in this run
    yieldedInBatch,     \* number of records yielded from the current batch
    lastYield,          \* the last record yielded
    pageBiz,            \* Yelp: businesses returned by the page-based path
    srcFull,            \* every response so far was full and signalled more
    emptyBatchSeen,     \* some batch of this run contained zero records
    limiter,            \* the Rate Limiter calls of this run
    \* ---- a call of a normalisation function on its own
    raw,                \* the function called and its argument
    out                 \* what the call returned, or Raised

vars == <<site, pc, headers, clientHeaders, csrf_token, indeed_csrf_token,
          max_results, results_count, batch_size, cursor, page, offset,
          items, idx, shape, has_next_page, total, caller, demand, asked,
          paced, bootReq, lastReq, batchReqs, nReq, batchNo, requestedBefore,
          yielded, yieldedInBatch, lastYield, pageBiz, srcFull, emptyBatchSeen,
          limiter, raw, out>>

normVars == <<raw, out>>
clientVars == <<headers, clientHeaders, csrf_token, indeed_csrf_token>>
localVars == <<results_count, batch_size, cursor, page, offset, items, idx,
               shape, has_next_page, total, caller>>
histVars == <<paced, bootReq, lastReq, batchReqs, nReq, batchNo,
              requestedBefore, yielded, yieldedInBatch, lastYield, pageBiz,
              srcFull, emptyBatchSeen,
              limiter>>

\* ------------------------------------------------------------------ helpers
Min(a, b) == IF a < b THEN a ELSE b

\* dict assignment d[k] = v
Put(d, k, v) == [x \in DOMAIN d \cup {k} |-> IF x = k THEN v ELSE d[x]]

\* httpx merges the client's headers with the per-request headers
MergeHeaders(client, request) ==
    [x \in DOMAIN client \cup DOMAIN request |->
        IF x \in DOMAIN request THEN request[x] ELSE client[x]]

NoHeaders == [x \in {} |-> None]

\* the literal header mapping of __init__ (one representative entry)
BaseHeaders == [x \in {"User-Agent"} |-> "ua"]

\* httpx.Client(headers=h) builds its own Headers object from h: later
\* assignments to h are not seen by the client
ClientHeadersOf(h) == [x \in DOMAIN h |-> h[x]]

NoRequest == [kind |-> "none", ok |-> FALSE, paced |-> FALSE]
\* what a response carries: status 200 or not, the number of records, and
\* the continuation signals of the three sites
NoReply == [ok |-> FALSE, n |-> 0, cursor |-> None, mosaic |-> FALSE,
            more |-> FALSE, total |-> 0, path |-> "none"]
NoSent == [kind |-> "none", start |-> 0, limit |-> 0, size_param |-> 0,
           cursor |-> None, sent |-> NoHeaders, before |-> 0, batch |-> 0,
           count |-> 0, reply |-> NoReply]
NoRecord == [path |-> "none", keys |-> {}]

Request(kind, ok) == [kind |-> kind, ok |-> ok, paced |-> paced]

\* the bootstrap request and its response: status 200 or not, and the token
\* fields the response body carries
Bootstrap(kind, status_ok, found) ==
    [kind |-> kind, ok |-> status_ok, paced |-> paced, found |-> found]

\* page_size of search_all (the literal 20 of Twitter's min)
PageSize(s) ==
    CASE s = "twitter" -> TwitterPageSize
      [] s = "indeed" -> IndeedPageSize
      [] OTHER -> YelpPageSize

\* the values of max_results a run is started with: a negative one, the
\* small ones, one just past a page of the client, and the scenario's
MaxResultsChoices(s) == (-1..MaxSmallM) \cup {PageSize(s) + 1, ScenarioMax}

\* the numbers of records a response to a request for bs records may carry
BatchCounts(bs) == {0, 1, bs} \cup {bs + k : k \in 1..MaxExtra}

\* ------------------------------------------------------ canonical key sets
TweetKeys ==
    {"id", "created_at", "text", "retweet_count", "favorite_count",
     "reply_count", "quote_count", "user", "hashtags", "urls", "mentions",
     "media"}

IndeedGraphqlJobKeys ==
    {"id", "title", "company", "location", "salary", "job_types",
     "description", "url", "date_posted"}

IndeedHtmlJobKeys ==
    {"id", "title", "company", "location", "salary", "description", "url",
     "date_posted"}

YelpInitialStateKeys ==
    {"id", "name", "url", "image_url", "review_count", "rating", "price",
     "categories", "location", "phone", "distance"}

YelpHtmlKeys ==
    {"id", "name", "url", "image_url", "review_count", "rating", "price",
     "categories", "location", "phone"}

\* the fields the GraphQL query asks for; search_all yields them untouched
YelpGraphqlKeys ==
    {"id", "name", "url", "photos", "rating", "review_count", "price",
     "categories", "location", "phone", "distance"}

RecordKeys(s, sh) ==
    CASE sh = "timeline" -> TweetKeys
      [] s = "indeed" /\ sh = "graphql" -> IndeedGraphqlJobKeys
      [] s = "indeed" /\ sh = "html" -> IndeedHtmlJobKeys
      [] s = "yelp" /\ sh = "graphql" -> YelpGraphqlKeys
      [] s = "yelp" /\ sh = "state" -> YelpInitialStateKeys
      [] s = "yelp" /\ sh = "html" -> YelpHtmlKeys
      [] OTHER -> {}

\* ------------------------------------------------- raw values (Python)
\* A raw value of a response is tagged with its Python type.  A string is the
\* sequence of its pieces, so that joining and formatting build a new value.
\* A mapping is a function on its possible keys; a key mapped to Absent is
\* not in the mapping.
Absent == [t |-> "absent", v |-> <<>>]
Null == [t |-> "null", v |-> <<>>]
False == [t |-> "bool", v |-> <<>>]
Raised == [t |-> "raised", v |-> <<>>]
Pending == [t |-> "pending", v |-> <<>>]
S(x) == [t |-> "str", v |-> <<x>>]
Str(pieces) == [t |-> "str", v |-> pieces]
L(seq) == [t |-> "list", v |-> seq]
D(f) == [t |-> "dict", v |-> f]
EmptyDict == D([k \in {} |-> Null])
EmptyList == L(<<>>)

\* k in d
PyIn(d, k) ==
    IF d.t = "raised" \/ d.t \notin {"dict", "list", "str"} THEN Raised
    ELSE IF d.t = "dict" /\ k \in DOMAIN d.v /\ d.v[k].t # "absent"
    THEN S("True") ELSE False

\* d.get(k, default): raises when d is None
PyGet(d, k, default) ==
    IF d.t # "dict" THEN Raised
    ELSE IF k \in DOMAIN d.v /\ d.v[k].t # "absent" THEN d.v[k]
    ELSE default

\* d[k]
PyItem(d, k) ==
    IF d.t # "dict" THEN Raised
    ELSE IF k \in DOMAIN d.v /\ d.v[k].t # "absent" THEN d.v[k]
    ELSE Raised

\* l[0]
PyFirst(l) ==
    IF l.t # "list" THEN Raised
    ELSE IF Len(l.v) = 0 THEN Raised
    ELSE l.v[1]

\* the truth value of x in a condition
Truthy(x) ==
    CASE x.t \in {"null", "bool", "absent"} -> FALSE
      [] x.t \in {"str", "list"} -> Len(x.v) > 0
      [] x.t = "dict" -> \E k \in DOMAIN x.v : x.v[k].t # "absent"
      [] OTHER -> FALSE

\* a dict display {k: e, ...}: raises when one of its expressions raises
PyDict(f) ==
    IF \E k \in DOMAIN f : f[k].t = "raised" THEN Raised ELSE D(f)

\* the number of turns of a loop over l
PyLen(l) == IF l.t = "list" THEN Len(l.v) ELSE 0

\* a comprehension [e(x) for x in l], r being the values of e in order:
\* raises when l is not iterable or one e(x) raises
PyMap(l, r) ==
    IF l.t # "list" THEN Raised
    ELSE IF \E i \in 1..Len(l.v) : r[i].t = "raised" THEN Raised
    ELSE L(r)

\* str(x) inside an f-string
PyStr(x) ==
    CASE x.t = "str" -> x.v
      [] x.t = "null" -> <<"None">>
      [] OTHER -> <<"?">>

\* f"{prefix}{x}"
PyFormat(prefix, x) ==
    IF x.t = "raised" THEN Raised ELSE Str(prefix \o PyStr(x))

RECURSIVE JoinPieces(_, _)
JoinPieces(sep, parts) ==
    IF Len(parts) = 0 THEN <<>>
    ELSE IF Len(parts) = 1 THEN parts[1].v
    ELSE parts[1].v \o <<sep>> \o JoinPieces(sep, Tail(parts))

\* sep.join(parts)
PyJoin(sep, parts) == Str(JoinPieces(sep, parts))

\* ------------------------------------------------------------ normalisation
\* the raw records of a response the drivers are run on: a complete one and
\* one with a null nested object
SampleTweets ==
    {D([rest_id |-> S("1"),
        legacy |-> D([full_text |-> S("hi")]),
        core |-> c]) :
        c \in {Null,
               D([user_results |->
                    D([result |-> D([legacy |-> D([name |-> S("ann")])])])])}}

SampleJobs ==
    {D([job |-> D([key |-> S("jk1"), company |-> c])]) :
        c \in {Null, D([name |-> S("Acme")])}}

\* TwitterSearchAPI.extract_tweet_data
extract_tweet_data(tweet) ==
    LET legacy == PyGet(tweet, "legacy", EmptyDict)
        user == PyGet(PyGet(PyGet(PyGet(tweet, "core", EmptyDict),
                    "user_results", EmptyDict), "result", EmptyDict),
                    "legacy", EmptyDict)
        entities == PyGet(legacy, "entities", EmptyDict)
        Hashtag(h) == PyGet(h, "text", Null)
        Url(u) == PyGet(u, "expanded_url", Null)
        Mention(m) ==
            PyDict([screen_name |-> PyGet(m, "screen_name", Null),
                    name |-> PyGet(m, "name", Null),
                    id |-> PyGet(m, "id_str", Null)])
        Media(m) ==
            PyDict([type |-> PyGet(m, "type", Null),
                    url |-> PyGet(m, "media_url_https", Null),
                    alt_text |-> PyGet(m, "ext_alt_text", Null)])
        has_media == PyIn(entities, "media")
        hashtags == PyGet(entities, "hashtags", EmptyList)
        urls == PyGet(entities, "urls", EmptyList)
        user_mentions == PyGet(entities, "user_mentions", EmptyList)
        media == PyGet(entities, "media", EmptyList)
    IN PyDict(
        [id |-> PyGet(tweet, "rest_id", Null),
         created_at |-> PyGet(legacy, "created_at", Null),
         text |-> PyGet(legacy, "full_text", Null),
         retweet_count |-> PyGet(legacy, "retweet_count", Null),
         favorite_count |-> PyGet(legacy, "favorite_count", Null),
         reply_count |-> PyGet(legacy, "reply_count", Null),
         quote_count |-> PyGet(legacy, "quote_count", Null),
         user |-> PyDict(
             [id |-> PyGet(user, "id_str", Null),
              name |-> PyGet(user, "name", Null),
              screen_name |-> PyGet(user, "screen_name", Null),
              followers_count |-> PyGet(user, "followers_count", Null),
              friends_count |-> PyGet(user, "friends_count", Null),
              verified |-> PyGet(user, "verified", False)]),
         hashtags |->
             PyMap(hashtags,
                   [i \in 1..PyLen(hashtags) |-> Hashtag(hashtags.v[i])]),
         urls |-> PyMap(urls, [i \in 1..PyLen(urls) |-> Url(urls.v[i])]),
         mentions |->
             PyMap(user_mentions,
                   [i \in 1..PyLen(user_mentions) |->
                       Mention(user_mentions.v[i])]),
         media |-> IF has_media.t = "raised" THEN Raised
                   ELSE IF Truthy(has_media)
                   THEN PyMap(media,
                              [i \in 1..PyLen(media) |-> Media(media.v[i])])
                   ELSE EmptyList])

\* mutant of _format_location: the country is appended whenever it is given
_format_location_KeepCountry(location) ==
    LET city == PyGet(location, "city", Null)
        state == PyGet(location, "state", Null)
        country == PyGet(location, "country", Null)
        parts == (IF Truthy(city) THEN <<PyItem(location, "city")>>
                  ELSE <<>>)
                 \o (IF Truthy(state) THEN <<PyItem(location, "state")>>
                     ELSE <<>>)
                 \o (IF Truthy(country)
                     THEN <<PyItem(location, "country")>> ELSE <<>>)
    IN IF location.t # "dict" THEN Raised
       ELSE IF Len(parts) > 0 THEN PyJoin(", ", parts)
       ELSE S("Remote")

\* IndeedJobSearchAPI._format_location
_format_location(location) ==
    LET city == PyGet(location, "city", Null)
        state == PyGet(location, "state", Null)
        country == PyGet(location, "country", Null)
        parts == (IF Truthy(city) THEN <<PyItem(location, "city")>>
                  ELSE <<>>)
                 \o (IF Truthy(state) THEN <<PyItem(location, "state")>>
                     ELSE <<>>)
                 \o (IF Truthy(country) /\ ~(Truthy(city) \/ Truthy(state))
                     THEN <<PyItem(location, "country")>> ELSE <<>>)
    IN IF location.t # "dict" THEN Raised
       ELSE IF Len(parts) > 0 THEN PyJoin(", ", parts)
       ELSE S("Remote")

\* IndeedJobSearchAPI.search_all: the record built from one GraphQL result
IndeedGraphqlJob(job) ==
    LET job_data == PyItem(job, "job")
    IN PyDict(
        [id |-> PyGet(job_data, "key", Null),
         title |-> PyGet(job_data, "title", Null),
         company |-> PyGet(PyGet(job_data, "company", EmptyDict),
                           "name", Null),
         location |->
             LET loc == PyGet(job_data, "location", EmptyDict)
             IN IF loc.t = "raised" THEN Raised ELSE _format_location(loc),
         salary |-> PyGet(PyGet(job_data, "salarySnippet", EmptyDict),
                          "text", Null),
         job_types |-> PyGet(job_data, "jobTypes", EmptyList),
         description |-> PyGet(job_data, "description", Null),
         url |-> PyFormat(<<"BASE_URL", "/viewjob?jk=">>,
                          PyGet(job_data, "key", Null)),
         date_posted |-> PyGet(job_data, "postingDate", Null)])

\* YelpBusinessSearchAPI._extract_from_initial_state: the record appended for
\* one search result
YelpInitialStateBusiness(business) ==
    LET business_data == PyGet(business, "business", EmptyDict)
        Category(cat) ==
            PyDict([title |-> PyGet(cat, "title", Null),
                    alias |-> PyGet(cat, "alias", Null)])
        categories == PyGet(business_data, "categories", EmptyList)
    IN PyDict(
        [id |-> PyGet(business_data, "id", Null),
         name |-> PyGet(business_data, "name", Null),
         url |-> PyFormat(<<"BASE_URL">>,
                          PyGet(business_data, "businessUrl", Null)),
         image_url |-> PyGet(business_data, "photoPageUrl", Null),
         review_count |-> PyGet(business_data, "reviewCount", Null),
         rating |-> PyGet(business_data, "rating", Null),
         price |-> PyGet(business_data, "priceRange", Null),
         categories |->
             PyMap(categories,
                   [i \in 1..PyLen(categories) |->
                       Category(categories.v[i])]),
         location |-> PyDict(
             [address1 |-> PyGet(business_data, "formattedAddress", Null),
              city |-> PyFirst(PyGet(business_data, "neighborhoods",
                                     L(<<Null>>))),
              state |-> Null,
              zip_code |-> Null,
              display_address |->
                  PyGet(business_data, "formattedAddress", Null)]),
         phone |-> PyGet(business_data, "phone", Null),
         distance |-> PyGet(business_data, "distance", Null)])

\* the loop of _extract_from_initial_state over searchResults: results that
\* are not businesses are skipped; nothing catches a failing record
RECURSIVE ExtractBusinesses(_)
ExtractBusinesses(results) ==
    IF Len(results) = 0 THEN EmptyList
    ELSE LET business == results[1]
             type == PyGet(business, "type", Null)
             rest == ExtractBusinesses(Tail(results))
         IN IF type.t = "raised" THEN Raised
            ELSE IF type # S("business") THEN rest
            ELSE LET rec == YelpInitialStateBusiness(business)
                 IN IF rec.t = "raised" \/ rest.t = "raised" THEN Raised
                    ELSE L(<<rec>> \o rest.v)

_extract_from_initial_state(searchResults) ==
    IF searchResults.t # "list" THEN Raised
    ELSE ExtractBusinesses(searchResults.v)

\* ---------------------------------------------------------------- initial
NoCall == [fn |-> "none", arg |-> Null]

\* no Rate Limiter call yet: calls counts all calls, inter those made
\* between two batches; within and between are the delay bounds of the last
\* call made before a request and of the last call made between two batches
NoLimiterCall ==
    [calls |-> 0, inter |-> 0, within |-> <<0, 0>>, between |-> <<0, 0>>]

\* the state of a client object before its constructor has run, and of the
\* locals of a search_all that has not been called
InitClient ==
    /\ headers = NoHeaders
    /\ clientHeaders = NoHeaders
    /\ csrf_token = None
    /\ indeed_csrf_token = None
    /\ max_results = 0
    /\ results_count = 0
    /\ batch_size = 0
    /\ cursor = None
    /\ page = 0
    /\ offset = 0
    /\ items = 0
    /\ idx = 0
    /\ shape = "none"
    /\ has_next_page = FALSE
    /\ total = 0
    /\ caller = "none"
    /\ demand = FALSE
    /\ asked = 0
    /\ paced = FALSE
    /\ bootReq = NoRequest
    /\ lastReq = NoSent
    /\ batchReqs = <<>>
    /\ nReq = 0
    /\ batchNo = 0
    /\ requestedBefore = 0
    /\ yielded = 0
    /\ yieldedInBatch = 0
    /\ lastYield = NoRecord
    /\ pageBiz = 0
    /\ srcFull = TRUE
    /\ emptyBatchSeen = FALSE
    /\ limiter = NoLimiterCall

Init ==
    /\ site \in Sites
    /\ pc = "new"
    /\ InitClient
    /\ raw = NoCall
    /\ out = Pending

\* ------------------------------------------------------------ constructors
\* mutant of TwitterInit: a 200 activation response without a guest_token
\* field is tolerated, the token is left null
TwitterInit_TolerateMissingToken(guest_token, outcome) ==
    /\ pc = "new"
    /\ site = "twitter"
    /\ clientHeaders' = ClientHeadersOf(BaseHeaders)
    /\ IF guest_token # None
       THEN /\ outcome = "unused"
            /\ headers' = Put(BaseHeaders, "X-Guest-Token", guest_token)
            /\ bootReq' = bootReq
            /\ pc' = "ready"
       ELSE /\ outcome # "unused"
            /\ bootReq' = Bootstrap("activate_post", outcome # "non200",
                                   IF outcome = "token"
                                   THEN {"guest_token"} ELSE {})
            /\ headers' = CASE outcome = "token" ->
                                 Put(BaseHeaders, "X-Guest-Token", SiteToken)
                            [] outcome = "no_token" ->
                                 Put(BaseHeaders, "X-Guest-Token", None)
                            [] OTHER -> BaseHeaders
            /\ pc' = IF outcome # "non200" THEN "ready" ELSE "ctor_failed"
    /\ paced' = FALSE
    /\ UNCHANGED <<limiter, normVars, site, csrf_token, indeed_csrf_token, max_results,
                   localVars, demand, asked, lastReq, batchReqs, nReq, batchNo,
                   requestedBefore, yielded, yieldedInBatch, lastYield,
                   pageBiz, srcFull, emptyBatchSeen>>

\* TwitterSearchAPI.__init__ with _obtain_guest_token.  outcome is what the
\* activation endpoint answers when no guest token was passed.
TwitterInit(guest_token, outcome) ==
    /\ pc = "new"
    /\ site = "twitter"
    /\ clientHeaders' = ClientHeadersOf(BaseHeaders)
    /\ IF guest_token # None
       THEN /\ outcome = "unused"
            /\ headers' = Put(BaseHeaders, "X-Guest-Token", guest_token)
            /\ bootReq' = bootReq
            /\ pc' = "ready"
       ELSE /\ outcome # "unused"
            /\ bootReq' = Bootstrap("activate_post", outcome # "non200",
                                   IF outcome = "token"
                                   THEN {"guest_token"} ELSE {})
            /\ headers' = CASE outcome = "token" ->
                                 Put(BaseHeaders, "X-Guest-Token", SiteToken)
                            [] outcome = "no_token" ->
                                 Put(BaseHeaders, "X-Guest-Token", None)
                            [] OTHER -> BaseHeaders
            \* guest_token[:5] raises on a missing token, as a non-200 does
            /\ pc' = IF outcome = "token" THEN "ready" ELSE "ctor_failed"
    /\ paced' = FALSE
    /\ UNCHANGED <<limiter, normVars, site, csrf_token, indeed_csrf_token, max_results,
                   localVars, demand, asked, lastReq, batchReqs, nReq, batchNo,
                   requestedBefore, yielded, yieldedInBatch, lastYield,
                   pageBiz, srcFull, emptyBatchSeen>>

\* IndeedJobSearchAPI.__init__ with _initialize_session
IndeedInit(status_ok, meta, script) ==
    /\ pc = "new"
    /\ site = "indeed"
    /\ clientHeaders' = ClientHeadersOf(BaseHeaders)
    /\ bootReq' = Bootstrap("landing_get", status_ok,
                             {t \in {"meta", "script"} :
                                 \/ t = "meta" /\ meta # None
                                 \/ t = "script" /\ script # None})
    /\ paced' = FALSE
    /\ IF ~status_ok
       THEN /\ meta = None /\ script = None
            /\ pc' = "ctor_failed"
            /\ headers' = BaseHeaders
            /\ csrf_token' = None
            /\ indeed_csrf_token' = None
       ELSE /\ pc' = "ready"
            /\ csrf_token' = meta
            /\ headers' = IF meta # None
                          THEN Put(BaseHeaders, "Indeed-CSRF-Token", meta)
                          ELSE BaseHeaders
            /\ indeed_csrf_token' = script
    /\ UNCHANGED <<limiter, normVars, site, max_results, localVars, demand, asked, lastReq, batchReqs,
                   nReq, batchNo, requestedBefore, yielded, yieldedInBatch,
                   lastYield, pageBiz, srcFull, emptyBatchSeen>>

\* YelpBusinessSearchAPI.__init__ with _initialize_session
YelpInit(status_ok, script) ==
    /\ pc = "new"
    /\ site = "yelp"
    /\ clientHeaders' = ClientHeadersOf(BaseHeaders)
    /\ bootReq' = Bootstrap("landing_get", status_ok,
                             IF script # None THEN {"script"} ELSE {})
    /\ paced' = FALSE
    /\ IF ~status_ok
       THEN /\ script = None
            /\ pc' = "ctor_failed"
            /\ headers' = BaseHeaders
            /\ csrf_token' = None
       ELSE /\ pc' = "ready"
            /\ csrf_token' = script
            /\ headers' = IF script # None
                          THEN Put(BaseHeaders, "X-CSRF-Token", script)
                          ELSE BaseHeaders
    /\ UNCHANGED <<limiter, normVars, site, indeed_csrf_token, max_results, localVars, demand, asked,
                   lastReq, batchReqs, nReq, batchNo, requestedBefore,
                   yielded, yieldedInBatch, lastYield, pageBiz, srcFull,
                   emptyBatchSeen>>

\* ------------------------------------------------- generator and consumer
\* a call of search_all: the generator object is created, its body has not
\* started (the locals get their initial values on the first next())
SearchAllCall(m) ==
    /\ pc = "ready"
    /\ max_results' = m
    /\ pc' = "loop"
    /\ demand' = FALSE
    /\ asked' = 0
    /\ UNCHANGED <<normVars, site, clientVars, localVars, histVars>>

\* the consumer asks for the next record
Consume ==
    /\ pc \notin {"new", "ready", "ctor_failed", "done", "raised",
                  "record_raised"}
    /\ ~demand
    /\ demand' = TRUE
    /\ asked' = asked + 1
    /\ UNCHANGED <<normVars, site, pc, clientVars, max_results, localVars, histVars>>

\* implement_rate_limiting: sleeps between min_delay and max_delay seconds,
\* then returns.  The call at the end of the while body returns to the loop
\* test.
implement_rate_limiting(min_delay, max_delay, next_pc) ==
    /\ paced' = TRUE
    /\ pc' = next_pc
    /\ limiter' = IF next_pc = "loop"
                  THEN [limiter EXCEPT !.calls = @ + 1, !.inter = @ + 1,
                                       !.between = <<min_delay, max_delay>>]
                  ELSE [limiter EXCEPT !.calls = @ + 1,
                                       !.within = <<min_delay, max_delay>>]

\* mutant of LoopHead: every batch asks for a whole page
LoopHead_WholePage(page_size, search_pc) ==
    /\ pc = "loop"
    /\ demand
    /\ IF results_count < max_results
       THEN /\ batch_size' = page_size
            /\ pc' = IF batch_size' <= 0 THEN "done" ELSE search_pc
            /\ batchNo' = batchNo + 1
            /\ requestedBefore' = requestedBefore + batch_size
            /\ batchReqs' = <<>>
            /\ yieldedInBatch' = 0
            /\ pageBiz' = 0
       ELSE /\ pc' = "done"
            /\ UNCHANGED <<batch_size, batchNo, requestedBefore, batchReqs,
                           yieldedInBatch, pageBiz>>
    /\ UNCHANGED <<limiter, normVars, site, clientVars, max_results, results_count, cursor,
                   page, offset, items, idx, shape, has_next_page, total,
                   caller, demand, asked, paced, bootReq, lastReq, nReq, yielded,
                   lastYield, srcFull, emptyBatchSeen>>

\* the loop test and the batch size of all three search_all
LoopHead(page_size, search_pc) ==
    /\ pc = "loop"
    /\ demand
    /\ IF results_count < max_results
       THEN /\ batch_size' = Min(page_size, max_results - results_count)
            /\ pc' = IF batch_size' <= 0 THEN "done" ELSE search_pc
            /\ batchNo' = batchNo + 1
            /\ requestedBefore' = requestedBefore + batch_size
            /\ batchReqs' = <<>>
            /\ yieldedInBatch' = 0
            /\ pageBiz' = 0
       ELSE /\ pc' = "done"
            /\ UNCHANGED <<batch_size, batchNo, requestedBefore, batchReqs,
                           yieldedInBatch, pageBiz>>
    /\ UNCHANGED <<limiter, normVars, site, clientVars, max_results, results_count, cursor,
                   page, offset, items, idx, shape, has_next_page, total,
                   caller, demand, asked, paced, bootReq, lastReq, nReq, yielded,
                   lastYield, srcFull, emptyBatchSeen>>

\* what every search request records: the request as the transport sends
\* it, the response, and the number of records yielded when it was sent.
\* limit is the size argument of the search call; size_param is the size the
\* request itself carries, 0 when it carries none (Yelp's search puts no size
\* in its GET parameters).
Sent(kind, start, per_request_headers, reply) ==
    [kind |-> kind, start |-> start, limit |-> batch_size,
     size_param |-> IF site = "yelp" /\ kind = "page_get"
                    THEN 0 ELSE batch_size,
     cursor |-> cursor,
     sent |-> MergeHeaders(clientHeaders, per_request_headers),
     before |-> requestedBefore, batch |-> batchNo, count |-> yielded,
     reply |-> reply]

SendRequest(kind, ok, start, per_request_headers, reply) ==
    /\ lastReq' = Sent(kind, start, per_request_headers, reply)
    /\ batchReqs' = Append(batchReqs, Request(kind, ok))
    /\ nReq' = nReq + 1
    /\ paced' = FALSE

\* mutant of YieldRecord: the record is handed over but search_all is not
\* suspended, it runs on as an eager function would
YieldRecord_NoSuspend ==
    /\ yielded' = yielded + 1
    /\ yieldedInBatch' = yieldedInBatch + 1
    /\ lastYield' = [path |-> shape, keys |-> RecordKeys(site, shape)]
    /\ UNCHANGED <<demand, asked>>

\* a yield of one element of the current list
YieldRecord ==
    /\ yielded' = yielded + 1
    /\ yieldedInBatch' = yieldedInBatch + 1
    /\ lastYield' = [path |-> shape, keys |-> RecordKeys(site, shape)]
    /\ demand' = FALSE
    /\ asked' = asked

\* ----------------------------------------------------------------- Twitter
TwitterLoopHead ==
    /\ site = "twitter"
    /\ batchNo < MaxBatches
    /\ LoopHead(PageSize(site), "tw_search")

\* search: the Rate Limiter call before the GET
TwitterSearchPace ==
    /\ pc = "tw_search"
    /\ demand
    /\ implement_rate_limiting(2, 5, "tw_get")
    /\ UNCHANGED <<normVars, site, clientVars, max_results, localVars, demand, asked, bootReq,
                   lastReq, batchReqs, nReq, batchNo, requestedBefore,
                   yielded, yieldedInBatch, lastYield, pageBiz, srcFull,
                   emptyBatchSeen>>

\* mutant of TwitterStop: a response without a Bottom cursor does not end
\* the run
TwitterStop_IgnoreCursor == results_count >= max_results

\* mutant of TwitterStop: reaching max_results does not end the run
TwitterStop_IgnoreMax == cursor = None

\* the condition that ends search_all after a batch
TwitterStop == cursor = None \/ results_count >= max_results

\* mutant of TwitterSearchGet: the except block of search logs the error and
\* returns an empty mapping instead of raising
TwitterSearchGet_SwallowError(ok, n, c) ==
    /\ pc = "tw_get"
    /\ demand
    /\ SendRequest("timeline_get", ok, 0, NoHeaders,
                   [NoReply EXCEPT !.ok = ok, !.n = n, !.cursor = c])
    /\ ~ok => (n = 0 /\ c = None)
    /\ cursor' = c
    /\ items' = n
    /\ idx' = 0
    /\ shape' = "timeline"
    /\ pc' = "tw_iter"
    /\ srcFull' = (srcFull /\ ok /\ n = batch_size /\ c # None)
    /\ emptyBatchSeen' = (emptyBatchSeen \/ n = 0)
    /\ UNCHANGED <<limiter, normVars, site, clientVars, max_results, results_count, batch_size,
                   page, offset, has_next_page, total, caller, demand, asked,
                   bootReq, batchNo, requestedBefore, yielded, yieldedInBatch,
                   lastYield, pageBiz>>

\* search: the GET, and search_all up to the start of the yield loop.
\* n is the number of tweet entries and c the Bottom cursor of the response.
TwitterSearchGet(ok, n, c) ==
    /\ pc = "tw_get"
    /\ demand
    /\ SendRequest("timeline_get", ok, 0, NoHeaders,
                   [NoReply EXCEPT !.ok = ok, !.n = n, !.cursor = c])
    /\ IF ~ok
       THEN /\ n = 0 /\ c = None
            /\ pc' = "raised"
            /\ srcFull' = FALSE
            /\ UNCHANGED <<cursor, items, idx, shape, emptyBatchSeen>>
       ELSE /\ cursor' = c
            /\ items' = n
            /\ idx' = 0
            /\ shape' = "timeline"
            /\ pc' = "tw_iter"
            /\ srcFull' = (srcFull /\ n = batch_size /\ c # None)
            /\ emptyBatchSeen' = (emptyBatchSeen \/ n = 0)
    /\ UNCHANGED <<limiter, normVars, site, clientVars, max_results, results_count, batch_size,
                   page, offset, has_next_page, total, caller, demand, asked,
                   bootReq, batchNo, requestedBefore, yielded, yieldedInBatch,
                   lastYield, pageBiz>>

\* one turn of the yield loop: the counters are raised before the yield;
\* the yielded value is extract_tweet_data(tweet_data), and an exception of
\* that call leaves the generator
TwitterIterYield(tweet_data) ==
    /\ pc = "tw_iter"
    /\ demand
    /\ idx < items
    /\ results_count' = results_count + 1
    /\ idx' = idx + 1
    /\ IF extract_tweet_data(tweet_data).t = "raised"
       THEN /\ pc' = "record_raised"
            /\ UNCHANGED <<yielded, yieldedInBatch, lastYield, demand, asked>>
       ELSE /\ YieldRecord
            /\ pc' = pc
    /\ UNCHANGED <<limiter, normVars, site, clientVars, max_results, batch_size,
                   cursor, page, offset, items, shape, has_next_page, total,
                   caller, paced, bootReq, lastReq, batchReqs, nReq, batchNo,
                   requestedBefore, pageBiz, srcFull, emptyBatchSeen>>

\* the yield loop is exhausted: stop, or go on to the next batch
TwitterIterEnd ==
    /\ pc = "tw_iter"
    /\ demand
    /\ idx = items
    /\ pc' = IF TwitterStop THEN "done" ELSE "tw_inter_pace"
    /\ UNCHANGED <<normVars, site, clientVars, max_results, localVars, demand, asked,
                   histVars>>

TwitterInterPace ==
    /\ pc = "tw_inter_pace"
    /\ demand
    /\ implement_rate_limiting(3, 6, "loop")
    /\ UNCHANGED <<normVars, site, clientVars, max_results, localVars, demand, asked, bootReq,
                   lastReq, batchReqs, nReq, batchNo, requestedBefore,
                   yielded, yieldedInBatch, lastYield, pageBiz, srcFull,
                   emptyBatchSeen>>

\* ------------------------------------------------------------------ Indeed
IndeedLoopHead ==
    /\ site = "indeed"
    /\ LoopHead(PageSize(site), "in_search")

IndeedSearchPace ==
    /\ pc = "in_search"
    /\ demand
    /\ implement_rate_limiting(2, 4, "in_get")
    /\ UNCHANGED <<normVars, site, clientVars, max_results, localVars, demand, asked, bootReq,
                   lastReq, batchReqs, nReq, batchNo, requestedBefore,
                   yielded, yieldedInBatch, lastYield, pageBiz, srcFull,
                   emptyBatchSeen>>

\* the 'start' parameter of the results-page GET
IndeedStart(pg, limit) == pg * limit

\* mutant of IndeedHasNext: a full page always means another page
IndeedHasNext_FullPageOnly(resp) == resp.n >= batch_size

\* search_all reads the value search returned: the job list and has_next_page
IndeedHasNext(resp) ==
    IF resp.shape = "graphql" THEN resp.more ELSE resp.n >= batch_size

\* mutant of IndeedReceive: an empty job list does not end the run
IndeedReceive_NoEmptyBreak(resp) ==
    /\ items' = resp.n
    /\ idx' = 0
    /\ shape' = resp.shape
    /\ has_next_page' = IndeedHasNext(resp)
    /\ pc' = "in_iter"
    /\ emptyBatchSeen' = (emptyBatchSeen \/ resp.n = 0)
    /\ srcFull' = (srcFull /\ resp.n = batch_size /\ resp.more)

IndeedReceive(resp) ==
    /\ items' = resp.n
    /\ idx' = 0
    /\ shape' = resp.shape
    /\ has_next_page' = IndeedHasNext(resp)
    /\ pc' = IF resp.n = 0 THEN "done" ELSE "in_iter"
    /\ emptyBatchSeen' = (emptyBatchSeen \/ resp.n = 0)
    /\ srcFull' = (srcFull /\ resp.n = batch_size /\ resp.more)

\* mutant of IndeedSearchGet: a page without the identifier is not parsed,
\* the GraphQL query is made whenever the token is held
IndeedSearchGet_PostWithoutMosaic(ok, mosaic, n) ==
    /\ pc = "in_get"
    /\ demand
    /\ SendRequest("page_get", ok, IndeedStart(page, batch_size), NoHeaders,
                   [NoReply EXCEPT !.ok = ok, !.n = n, !.mosaic = mosaic])
    /\ CASE ~ok ->
              /\ ~mosaic /\ n = 0
              /\ pc' = "raised"
              /\ srcFull' = FALSE
              /\ UNCHANGED <<items, idx, shape, has_next_page, emptyBatchSeen>>
         [] ok /\ ~mosaic /\ indeed_csrf_token = None ->
              IndeedReceive([shape |-> "html", n |-> n, more |-> TRUE])
         [] ok /\ ~mosaic /\ indeed_csrf_token # None ->
              /\ pc' = "in_gql_pace"
              /\ UNCHANGED <<items, idx, shape, has_next_page, emptyBatchSeen,
                             srcFull>>
         [] ok /\ mosaic ->
              /\ n = 0
              \* _search_graphql: no token, no POST
              /\ pc' = IF indeed_csrf_token = None THEN "raised"
                       ELSE "in_gql_pace"
              /\ UNCHANGED <<items, idx, shape, has_next_page, emptyBatchSeen,
                             srcFull>>
    /\ UNCHANGED <<limiter, normVars, site, clientVars, max_results, results_count, batch_size,
                   cursor, page, offset, total, caller, demand, asked, bootReq,
                   batchNo, requestedBefore, yielded, yieldedInBatch,
                   lastYield, pageBiz>>

\* mutant of IndeedSearchGet: without the GraphQL token the fetched page is
\* parsed as markup instead of raising
IndeedSearchGet_MarkupFallback(ok, mosaic, n) ==
    /\ pc = "in_get"
    /\ demand
    /\ SendRequest("page_get", ok, IndeedStart(page, batch_size), NoHeaders,
                   [NoReply EXCEPT !.ok = ok, !.n = n, !.mosaic = mosaic])
    /\ CASE ~ok ->
              /\ ~mosaic /\ n = 0
              /\ pc' = "raised"
              /\ srcFull' = FALSE
              /\ UNCHANGED <<items, idx, shape, has_next_page, emptyBatchSeen>>
         [] ok /\ ~mosaic ->
              IndeedReceive([shape |-> "html", n |-> n, more |-> TRUE])
         [] ok /\ mosaic /\ indeed_csrf_token = None ->
              IndeedReceive([shape |-> "html", n |-> n, more |-> TRUE])
         [] ok /\ mosaic /\ indeed_csrf_token # None ->
              /\ n = 0
              /\ pc' = "in_gql_pace"
              /\ UNCHANGED <<items, idx, shape, has_next_page, emptyBatchSeen,
                             srcFull>>
    /\ UNCHANGED <<limiter, normVars, site, clientVars, max_results, results_count, batch_size,
                   cursor, page, offset, total, caller, demand, asked, bootReq,
                   batchNo, requestedBefore, yielded, yieldedInBatch,
                   lastYield, pageBiz>>

\* search: the results-page GET.  mosaic: the page carries the identifier;
\* n: the number of job cards _parse_html_results finds in the page.
IndeedSearchGet(ok, mosaic, n) ==
    /\ pc = "in_get"
    /\ demand
    /\ SendRequest("page_get", ok, IndeedStart(page, batch_size), NoHeaders,
                   [NoReply EXCEPT !.ok = ok, !.n = n, !.mosaic = mosaic])
    /\ CASE ~ok ->
              /\ ~mosaic /\ n = 0
              /\ pc' = "raised"
              /\ srcFull' = FALSE
              /\ UNCHANGED <<items, idx, shape, has_next_page, emptyBatchSeen>>
         [] ok /\ ~mosaic ->
              IndeedReceive([shape |-> "html", n |-> n, more |-> TRUE])
         [] ok /\ mosaic ->
              /\ n = 0
              \* _search_graphql: no token, no POST
              /\ pc' = IF indeed_csrf_token = None THEN "raised"
                       ELSE "in_gql_pace"
              /\ UNCHANGED <<items, idx, shape, has_next_page, emptyBatchSeen,
                             srcFull>>
    /\ UNCHANGED <<limiter, normVars, site, clientVars, max_results, results_count, batch_size,
                   cursor, page, offset, total, caller, demand, asked, bootReq,
                   batchNo, requestedBefore, yielded, yieldedInBatch,
                   lastYield, pageBiz>>

\* mutant of IndeedGraphqlPace: _search_graphql posts without calling the
\* Rate Limiter
IndeedGraphqlPace_NoRateLimit ==
    /\ pc = "in_gql_pace"
    /\ demand
    /\ pc' = "in_post"
    /\ UNCHANGED <<normVars, site, clientVars, max_results, localVars, demand, asked,
                   histVars>>

IndeedGraphqlPace ==
    /\ pc = "in_gql_pace"
    /\ demand
    /\ implement_rate_limiting(2, 4, "in_post")
    /\ UNCHANGED <<normVars, site, clientVars, max_results, localVars, demand, asked, bootReq,
                   lastReq, batchReqs, nReq, batchNo, requestedBefore,
                   yielded, yieldedInBatch, lastYield, pageBiz, srcFull,
                   emptyBatchSeen>>

\* the per-request headers of the GraphQL POST: a copy of self.headers
IndeedGraphqlHeaders ==
    Put(Put(headers, "Content-Type", "application/json"),
        "Indeed-CSRF-Token", indeed_csrf_token)

\* mutant of IndeedGraphqlPost: the per-request headers are written into
\* self.headers itself, not into a copy
IndeedGraphqlPost_NoCopy(ok, n, more) ==
    /\ pc = "in_post"
    /\ demand
    /\ headers' = IndeedGraphqlHeaders
    /\ SendRequest("graphql_post", ok, page, IndeedGraphqlHeaders,
                   [NoReply EXCEPT !.ok = ok, !.n = n, !.more = more])
    /\ IF ~ok
       THEN /\ n = 0 /\ ~more
            /\ pc' = "raised"
            /\ srcFull' = FALSE
            /\ UNCHANGED <<items, idx, shape, has_next_page, emptyBatchSeen>>
       ELSE IndeedReceive([shape |-> "graphql", n |-> n, more |-> more])
    /\ UNCHANGED <<limiter, normVars, site, clientHeaders, csrf_token,
                   indeed_csrf_token, max_results, results_count, batch_size,
                   cursor, page, offset, total, caller, demand, asked, bootReq,
                   batchNo, requestedBefore, yielded, yieldedInBatch,
                   lastYield, pageBiz>>

\* _search_graphql: the POST.  n jobs, more: nextPageToken is not null
IndeedGraphqlPost(ok, n, more) ==
    /\ pc = "in_post"
    /\ demand
    /\ SendRequest("graphql_post", ok, page, IndeedGraphqlHeaders,
                   [NoReply EXCEPT !.ok = ok, !.n = n, !.more = more])
    /\ IF ~ok
       THEN /\ n = 0 /\ ~more
            /\ pc' = "raised"
            /\ srcFull' = FALSE
            /\ UNCHANGED <<items, idx, shape, has_next_page, emptyBatchSeen>>
       ELSE IndeedReceive([shape |-> "graphql", n |-> n, more |-> more])
    /\ UNCHANGED <<limiter, normVars, site, clientVars, max_results, results_count, batch_size,
                   cursor, page, offset, total, caller, demand, asked, bootReq,
                   batchNo, requestedBefore, yielded, yieldedInBatch,
                   lastYield, pageBiz>>

\* the yield inside the for loop: the generator is suspended at the yield.
\* A GraphQL result is mapped to a record in the yield expression, and an
\* exception of that mapping leaves the generator; a markup-parsed job is
\* yielded as it is.
IndeedIterYield(job) ==
    /\ pc = "in_iter"
    /\ demand
    /\ idx < items
    /\ IF shape = "graphql" /\ IndeedGraphqlJob(job).t = "raised"
       THEN /\ pc' = "record_raised"
            /\ UNCHANGED <<yielded, yieldedInBatch, lastYield, demand, asked>>
       ELSE /\ YieldRecord
            /\ pc' = "in_resume"
    /\ UNCHANGED <<limiter, normVars, site, clientVars, max_results, localVars, paced,
                   bootReq, lastReq, batchReqs, nReq, batchNo,
                   requestedBefore, pageBiz, srcFull, emptyBatchSeen>>

\* the condition that ends search_all after a batch
IndeedStop == ~has_next_page \/ results_count >= max_results

\* after the yield: count the record, leave the loop at the maximum
IndeedResume ==
    /\ pc = "in_resume"
    /\ demand
    /\ results_count' = results_count + 1
    /\ idx' = idx + 1
    /\ pc' = IF results_count' >= max_results THEN "done" ELSE "in_iter"
    /\ UNCHANGED <<normVars, site, clientVars, max_results, batch_size, cursor, page,
                   offset, items, shape, has_next_page, total, caller, demand, asked,
                   histVars>>

IndeedIterEnd ==
    /\ pc = "in_iter"
    /\ demand
    /\ idx = items
    /\ IF IndeedStop
       THEN pc' = "done" /\ page' = page
       ELSE pc' = "in_inter_pace" /\ page' = page + 1
    /\ UNCHANGED <<normVars, site, clientVars, max_results, results_count, batch_size,
                   cursor, offset, items, idx, shape, has_next_page, total,
                   caller, demand, asked, histVars>>

\* mutant of IndeedInterPace: the next page is fetched without the Rate
\* Limiter call at the end of the while body
IndeedInterPace_NoRateLimit ==
    /\ pc = "in_inter_pace"
    /\ demand
    /\ pc' = "loop"
    /\ UNCHANGED <<normVars, site, clientVars, max_results, localVars, demand, asked,
                   histVars>>

IndeedInterPace ==
    /\ pc = "in_inter_pace"
    /\ demand
    /\ implement_rate_limiting(3, 5, "loop")
    /\ UNCHANGED <<normVars, site, clientVars, max_results, localVars, demand, asked, bootReq,
                   lastReq, batchReqs, nReq, batchNo, requestedBefore,
                   yielded, yieldedInBatch, lastYield, pageBiz, srcFull,
                   emptyBatchSeen>>

\* -------------------------------------------------------------------- Yelp
YelpLoopHead ==
    /\ site = "yelp"
    /\ LoopHead(PageSize(site), "y_graphql")

\* the totals a response with n businesses may report
YelpTotals(n) == {0, n, results_count + n, max_results + 1}

\* search_all's try body reads the returned value as a GraphQL response:
\* get("data", {}).get("search", {}).get("business", []) and .get("total", 0)
YelpReadGraphql(resp) ==
    IF resp.shape = "graphql"
    THEN [businesses |-> resp.n, total |-> resp.total, shape |-> resp.shape]
    ELSE [businesses |-> 0, total |-> 0, shape |-> resp.shape]

\* search_all's except body reads the value search returned:
\* get("businesses", []) and get("total", 0)
YelpReadPage(resp) ==
    IF resp.shape \in {"state", "html"}
    THEN [businesses |-> resp.n, total |-> resp.total, shape |-> resp.shape]
    ELSE [businesses |-> 0, total |-> 0, shape |-> resp.shape]

\* search_all, from the assignment of businesses and total to the for loop
YelpReceive(got) ==
    /\ items' = got.businesses
    /\ total' = got.total
    /\ idx' = 0
    /\ shape' = got.shape
    /\ pc' = IF got.businesses = 0 THEN "done" ELSE "y_iter"
    /\ emptyBatchSeen' = (emptyBatchSeen \/ got.businesses = 0)

\* mutant of YelpGraphqlEntry: search_graphql does not test the token
YelpGraphqlEntry_NoTokenCheck ==
    /\ pc = "y_graphql"
    /\ demand
    /\ pc' = "y_gql_pace"
    /\ caller' = "search_graphql"
    /\ UNCHANGED <<normVars, site, clientVars, max_results, results_count, batch_size,
                   cursor, page, offset, items, idx, shape, has_next_page,
                   total, demand, asked, histVars>>

\* search_graphql, entry: without a token it raises before its try block, so
\* the exception reaches search_all's except, which calls search
YelpGraphqlEntry ==
    /\ pc = "y_graphql"
    /\ demand
    /\ IF csrf_token = None
       THEN pc' = "y_search" /\ caller' = "search_all"
       ELSE pc' = "y_gql_pace" /\ caller' = "search_graphql"
    /\ UNCHANGED <<normVars, site, clientVars, max_results, results_count, batch_size,
                   cursor, page, offset, items, idx, shape, has_next_page,
                   total, demand, asked, histVars>>

YelpGraphqlPace ==
    /\ pc = "y_gql_pace"
    /\ demand
    /\ implement_rate_limiting(2, 4, "y_post")
    /\ UNCHANGED <<normVars, site, clientVars, max_results, localVars, demand, asked, bootReq,
                   lastReq, batchReqs, nReq, batchNo, requestedBefore,
                   yielded, yieldedInBatch, lastYield, pageBiz, srcFull,
                   emptyBatchSeen>>

\* the per-request headers of the GraphQL POST: a copy of self.headers
YelpGraphqlHeaders == Put(headers, "X-CSRF-Token", csrf_token)

\* search_graphql: the POST.  On any failure its except block calls search
\* and returns what search returns.
YelpGraphqlPost(ok, n, t) ==
    /\ pc = "y_post"
    /\ demand
    /\ SendRequest("graphql_post", ok, offset, YelpGraphqlHeaders,
                   [NoReply EXCEPT !.ok = ok, !.n = n, !.total = t])
    /\ IF ~ok
       THEN /\ n = 0 /\ t = 0
            /\ pc' = "y_search"
            /\ srcFull' = FALSE
            /\ UNCHANGED <<items, total, idx, shape, emptyBatchSeen>>
       ELSE /\ YelpReceive(YelpReadGraphql(
                   [shape |-> "graphql", n |-> n, total |-> t]))
            /\ srcFull' = (srcFull /\ n = batch_size /\ t >= max_results)
    /\ UNCHANGED <<limiter, normVars, site, clientVars, max_results, results_count, batch_size,
                   cursor, page, offset, has_next_page, caller, demand, asked,
                   bootReq, batchNo, requestedBefore, yielded, yieldedInBatch,
                   lastYield, pageBiz>>

YelpSearchPace ==
    /\ pc = "y_search"
    /\ demand
    /\ implement_rate_limiting(2, 4, "y_get")
    /\ UNCHANGED <<normVars, site, clientVars, max_results, localVars, demand, asked, bootReq,
                   lastReq, batchReqs, nReq, batchNo, requestedBefore,
                   yielded, yieldedInBatch, lastYield, pageBiz, srcFull,
                   emptyBatchSeen>>

\* search returns _extract_from_initial_state (total is totalResults, or the
\* number of businesses when the page does not give it) or
\* _parse_html_results (total is the number of businesses parsed)
YelpPageResult(path, n, t) ==
    IF path = "state"
    THEN [shape |-> "state", n |-> n, total |-> t]
    ELSE [shape |-> "html", n |-> n, total |-> n]

\* search: the results-page GET.  Called from search_graphql's except block
\* (caller = "search_graphql") or from search_all's except block.  ok is
\* FALSE when search raises: on a status other than 200, and on any exception
\* inside its try block (a record _extract_from_initial_state cannot build).
YelpSearchGet(ok, path, n, t) ==
    /\ pc = "y_get"
    /\ demand
    /\ SendRequest("page_get", ok, offset, NoHeaders,
                   [NoReply EXCEPT !.ok = ok, !.n = n, !.total = t,
                                   !.path = path])
    /\ IF ~ok
       THEN /\ path = "html" /\ n = 0 /\ t = 0
            /\ srcFull' = FALSE
            \* raised inside search_graphql's except block: search_all's
            \* except catches it and calls search; raised there: propagates
            /\ pc' = IF caller = "search_graphql" THEN "y_search" ELSE "raised"
            /\ caller' = "search_all"
            /\ UNCHANGED <<items, total, idx, shape, emptyBatchSeen, pageBiz>>
       ELSE /\ path = "html" => t = n
            /\ pageBiz' = n
            /\ caller' = caller
            /\ srcFull' = (srcFull /\ n = batch_size
                           /\ (path = "state" => t >= max_results))
            /\ IF caller = "search_graphql"
               THEN YelpReceive(YelpReadGraphql(YelpPageResult(path, n, t)))
               ELSE YelpReceive(YelpReadPage(YelpPageResult(path, n, t)))
    /\ UNCHANGED <<limiter, normVars, site, clientVars, max_results, results_count, batch_size,
                   cursor, page, offset, has_next_page, demand, asked, bootReq,
                   batchNo, requestedBefore, yielded, yieldedInBatch,
                   lastYield>>

YelpIterYield ==
    /\ pc = "y_iter"
    /\ demand
    /\ idx < items
    /\ YieldRecord
    /\ pc' = "y_resume"
    /\ UNCHANGED <<limiter, normVars, site, clientVars, max_results, localVars, paced, bootReq,
                   lastReq, batchReqs, nReq, batchNo, requestedBefore,
                   pageBiz, srcFull, emptyBatchSeen>>

\* mutant of YelpStop: the total of the response is not looked at
YelpStop_IgnoreTotal == results_count >= max_results

\* the condition that ends search_all after a batch
YelpStop == results_count >= total \/ results_count >= max_results

YelpResume ==
    /\ pc = "y_resume"
    /\ demand
    /\ results_count' = results_count + 1
    /\ idx' = idx + 1
    /\ pc' = IF results_count' >= max_results THEN "done" ELSE "y_iter"
    /\ UNCHANGED <<normVars, site, clientVars, max_results, batch_size, cursor, page,
                   offset, items, shape, has_next_page, total, caller, demand, asked,
                   histVars>>

YelpIterEnd ==
    /\ pc = "y_iter"
    /\ demand
    /\ idx = items
    /\ IF YelpStop
       THEN pc' = "done" /\ offset' = offset
       ELSE pc' = "y_inter_pace" /\ offset' = offset + batch_size
    /\ UNCHANGED <<normVars, site, clientVars, max_results, results_count, batch_size,
                   cursor, page, items, idx, shape, has_next_page, total,
                   caller, demand, asked, histVars>>

YelpInterPace ==
    /\ pc = "y_inter_pace"
    /\ demand
    /\ implement_rate_limiting(3, 5, "loop")
    /\ UNCHANGED <<normVars, site, clientVars, max_results, localVars, demand, asked, bootReq,
                   lastReq, batchReqs, nReq, batchNo, requestedBefore,
                   yielded, yieldedInBatch, lastYield, pageBiz, srcFull,
                   emptyBatchSeen>>

\* ------------------------------------------------------------ specification
Construct ==
    \/ \E gt \in {None, CallerToken} :
         \E o \in {"unused", "token", "no_token", "non200"} :
            TwitterInit(gt, o)
    \/ \E st \in BOOLEAN : \E meta, script \in {None, SiteToken} :
         IndeedInit(st, meta, script)
    \/ \E st \in BOOLEAN : \E script \in {None, SiteToken} :
         YelpInit(st, script)

TwitterStep ==
    \/ TwitterLoopHead
    \/ TwitterSearchPace
    \/ \E ok \in BOOLEAN : \E n \in BatchCounts(batch_size) :
         \E c \in {None} \cup Cursors : TwitterSearchGet(ok, n, c)
    \/ \E tweet_data \in SampleTweets : TwitterIterYield(tweet_data)
    \/ TwitterIterEnd
    \/ TwitterInterPace

IndeedStep ==
    \/ IndeedLoopHead
    \/ IndeedSearchPace
    \/ \E ok, mosaic \in BOOLEAN : \E n \in BatchCounts(batch_size) :
         IndeedSearchGet(ok, mosaic, n)
    \/ IndeedGraphqlPace
    \/ \E ok, more \in BOOLEAN : \E n \in BatchCounts(batch_size) :
         IndeedGraphqlPost(ok, n, more)
    \/ \E job \in SampleJobs : IndeedIterYield(job)
    \/ IndeedResume
    \/ IndeedIterEnd
    \/ IndeedInterPace

YelpStep ==
    \/ YelpLoopHead
    \/ YelpGraphqlEntry
    \/ YelpGraphqlPace
    \/ \E ok \in BOOLEAN : \E n \in BatchCounts(batch_size) :
         \E t \in YelpTotals(n) : YelpGraphqlPost(ok, n, t)
    \/ YelpSearchPace
    \/ \E ok \in BOOLEAN : \E path \in {"state", "html"} :
         \E n \in BatchCounts(batch_size) : \E t \in YelpTotals(n) :
            YelpSearchGet(ok, path, n, t)
    \/ YelpIterYield
    \/ YelpResume
    \/ YelpIterEnd
    \/ YelpInterPace

Next ==
    \/ Construct
    \/ \E m \in MaxResultsChoices(site) : SearchAllCall(m)
    \/ Consume
    \/ TwitterStep
    \/ IndeedStep
    \/ YelpStep

Spec == Init /\ [][Next]_vars

\* ------------------------------------------------ a fully consumed run
\* A third specification: a client of Indeed or of Yelp whose search_all is
\* consumed to its end.  The consumer's loop always asks for the next
\* record, and every request returns (with any content, or by raising), so
\* a step of search_all that is possible is eventually taken.
LiveInit ==
    /\ site \in {"indeed", "yelp"}
    /\ pc = "new"
    /\ InitClient
    /\ raw = NoCall
    /\ out = Pending

LiveConstruct ==
    \/ \E st \in BOOLEAN : \E meta, script \in {None, SiteToken} :
         IndeedInit(st, meta, script)
    \/ \E st \in BOOLEAN : \E script \in {None, SiteToken} :
         YelpInit(st, script)

LiveNext ==
    \/ LiveConstruct
    \/ \E m \in MaxResultsChoices(site) : SearchAllCall(m)
    \/ Consume
    \/ IndeedStep
    \/ YelpStep

LiveSpec ==
    /\ LiveInit
    /\ [][LiveNext]_vars
    /\ WF_vars(Consume)
    /\ WF_vars(IndeedStep)
    /\ WF_vars(YelpStep)

\* ------------------------------------------ the normalisation functions
\* A second specification: one call of one normalisation function on a raw
\* record drawn from the partial shapes the sites can return (each field
\* missing, null, empty or filled).
OptionalStr(x) == {Absent, Null, S(x)}

RawHashtags ==
    {Absent, Null, EmptyList, L(<<D([text |-> S("tag")])>>)}

RawMedia ==
    {Absent, Null, EmptyList,
     L(<<D([type |-> S("photo"), media_url_https |-> S("m.jpg")])>>)}

RawEntities ==
    {Absent, Null}
    \cup {D([hashtags |-> h, media |-> m]) : h \in RawHashtags,
                                            m \in RawMedia}

RawLegacy ==
    {Absent, Null}
    \cup {D([full_text |-> ft, entities |-> e]) :
             ft \in {Absent, S("hi")}, e \in RawEntities}

RawCore ==
    {Absent, Null,
     D([user_results |->
          D([result |-> D([legacy |-> D([name |-> S("ann")])])])])}

RawTweets ==
    {D([rest_id |-> i, legacy |-> l, core |-> c]) :
        i \in OptionalStr("1"), l \in RawLegacy, c \in RawCore}

\* city, state and country: missing, null, empty or filled
RawLocations ==
    {D([city |-> c, state |-> st, country |-> k]) :
        c \in OptionalStr("Austin") \cup {Str(<<>>)},
        st \in OptionalStr("TX") \cup {Str(<<>>)},
        k \in OptionalStr("UK") \cup {Str(<<>>)}}

RawJobLocations ==
    {Absent, Null,
     D([city |-> Absent, state |-> Absent, country |-> Absent]),
     D([city |-> S("Austin"), state |-> S("TX"), country |-> S("US")])}

RawJobs ==
    {D([job |-> D([key |-> k, company |-> c, location |-> l,
                   salarySnippet |-> sal, jobTypes |-> jt])]) :
        k \in OptionalStr("jk1"),
        c \in {Absent, Null, D([name |-> Absent]), D([name |-> S("Acme")])},
        l \in RawJobLocations,
        sal \in {Absent, Null, D([text |-> S("$10")])},
        jt \in {Absent, Null, L(<<S("Full-time")>>)}}

RawBusinessData ==
    {Absent, Null}
    \cup {D([id |-> i, businessUrl |-> u, categories |-> c,
             neighborhoods |-> nb]) :
             i \in OptionalStr("b1"),
             u \in OptionalStr("/biz/b1"),
             c \in {Absent, Null, EmptyList,
                    L(<<D([title |-> S("Pizza")])>>)},
             nb \in {Absent, Null, EmptyList, L(<<S("Soho")>>)}}

CompleteBusiness ==
    D([type |-> S("business"),
       business |-> D([id |-> S("b0"), businessUrl |-> S("/biz/b0"),
                       categories |-> L(<<D([title |-> S("Pizza")])>>),
                       neighborhoods |-> L(<<S("Soho")>>)])])

\* searchResults with one business, alone or after a complete one
RawSearchResults ==
    {L(<<D([type |-> S("business"), business |-> b])>>) :
        b \in RawBusinessData}
    \cup {L(<<CompleteBusiness, D([type |-> S("business"), business |-> b])>>) :
             b \in RawBusinessData}

NormCalls ==
    {[fn |-> "extract_tweet_data", arg |-> a] : a \in RawTweets}
    \cup {[fn |-> "search_all_job", arg |-> a] : a \in RawJobs}
    \cup {[fn |-> "_format_location", arg |-> a] : a \in RawLocations}
    \cup {[fn |-> "_extract_from_initial_state", arg |-> a] :
             a \in RawSearchResults}

SiteOf(fn) ==
    CASE fn = "extract_tweet_data" -> "twitter"
      [] fn = "_extract_from_initial_state" -> "yelp"
      [] OTHER -> "indeed"

NormInit ==
    /\ raw \in NormCalls
    /\ out = Pending
    /\ site = SiteOf(raw.fn)
    /\ pc = "call"
    /\ InitClient

\* the call returns a value or raises; nothing of the client changes
NormReturn(fn, result) ==
    /\ pc = "call"
    /\ raw.fn = fn
    /\ out' = result
    /\ pc' = "returned"
    /\ UNCHANGED <<raw, site, clientVars, max_results, localVars, demand, asked,
                   histVars>>

CallExtractTweetData ==
    NormReturn("extract_tweet_data", extract_tweet_data(raw.arg))

CallIndeedGraphqlJob ==
    NormReturn("search_all_job", IndeedGraphqlJob(raw.arg))

CallFormatLocation ==
    NormReturn("_format_location", _format_location(raw.arg))

CallExtractFromInitialState ==
    NormReturn("_extract_from_initial_state",
               _extract_from_initial_state(raw.arg))

NormNext ==
    \/ CallExtractTweetData
    \/ CallIndeedGraphqlJob
    \/ CallFormatLocation
    \/ CallExtractFromInitialState

NormSpec == NormInit /\ [][NormNext]_vars

\* ------------------------------------------------------------------ claims
LastBatchReq == batchReqs[Len(batchReqs)]

\* C1: in every reachable state of every driver the running count and the
\* number of records yielded are at most max_results, also when a batch
\* carries more records than were requested.
C1_CountNeverExceedsMax ==
    /\ results_count <= max_results
    /\ yielded <= max_results

\* C2: a run that ended normally against a source that never failed and
\* answered every batch in full (as many records as requested, and a signal
\* that more exist) has yielded exactly max_results records, on every path.
C2_FullSourceYieldsExactlyMax ==
    (pc = "done" /\ srcFull) => yielded = max_results

\* C3: Indeed, max_results = 15, no early exhaustion: the results-page GET of
\* batch 1 has start 0 and limit 10, that of batch 2 has start 10 and limit
\* 5, and there is no third batch.
C3_ScenarioOffsets ==
    (site = "indeed" /\ max_results = ScenarioMax /\ srcFull
       /\ lastReq.kind = "page_get")
    => /\ lastReq.batch <= 2
       /\ lastReq.batch = 1 =>
             (lastReq.start = 0 /\ lastReq.limit = IndeedPageSize)
       /\ lastReq.batch = 2 =>
             (lastReq.start = IndeedPageSize
              /\ lastReq.limit = ScenarioMax - IndeedPageSize)

\* C4: once a batch with zero records has been received, no further search
\* request is sent, whatever continuation signal the response carried.
C4_EmptyBatchEndsRun ==
    [][emptyBatchSeen => nReq' = nReq]_vars

\* the query of the current batch has failed on the last path the driver
\* tries: Twitter and Indeed have no fallback; Yelp's search_all falls back
\* to search once, after search_graphql (and the search it calls) has failed
BatchQueryFailed ==
    /\ Len(batchReqs) >= 1
    /\ ~LastBatchReq.ok
    /\ site = "yelp" =>
          /\ LastBatchReq.kind = "page_get"
          /\ \/ Len(batchReqs) = 1
             \/ /\ Len(batchReqs) >= 2
                /\ batchReqs[Len(batchReqs) - 1].kind = "page_get"

\* C5: when the query of batch k has failed on every path, the generator is
\* in its raised state at once; a raised generator has yielded no record of
\* that batch (and none at all when k = 1), and sends no request and yields
\* no record ever after.
C5_FailurePropagates ==
    [][/\ BatchQueryFailed' => pc' = "raised"
       /\ pc' = "raised" =>
             (yieldedInBatch' = 0 /\ (batchNo' = 1 => yielded' = 0))
       /\ pc = "raised" => (nReq' = nReq /\ yielded' = yielded)]_vars

C5_Witness ==
    /\ pc = "raised"
    /\ site = "yelp"
    /\ batchNo = 2
    /\ yielded >= 1
    /\ Len(batchReqs) = 3

\* the structured path of the current Yelp batch failed
YelpStructuredFailed ==
    \/ csrf_token = None
    \/ /\ Len(batchReqs) >= 1
       /\ batchReqs[1].kind = "graphql_post"
       /\ ~batchReqs[1].ok

\* C6: Yelp: when the structured path of a batch failed and the page-based
\* search of that batch returned at least one business, the batch yields the
\* businesses of the page-based search (up to max_results).
C6_FallbackYieldsPageBusinesses ==
    (/\ site = "yelp"
     /\ pc \in {"done", "y_inter_pace"}
     /\ Len(batchReqs) >= 1
     /\ YelpStructuredFailed
     /\ LastBatchReq.kind = "page_get"
     /\ LastBatchReq.ok
     /\ pageBiz >= 1)
    => yieldedInBatch =
          Min(pageBiz, max_results - (yielded - yieldedInBatch))

\* C7: within one batch no endpoint is requested twice.
C7_NoEndpointTwicePerBatch ==
    \A i, j \in 1..Len(batchReqs) :
        i # j => batchReqs[i].kind # batchReqs[j].kind

\* C8: every job and every business yielded has the key set of the records
\* parsed from markup, whichever path produced it.
C8_SameKeySetOnBothPaths ==
    (site \in {"indeed", "yelp"} /\ lastYield.path # "none")
    => lastYield.keys = RecordKeys(site, "html")

\* C9 as claimed: the bootstrap request and every search request were
\* preceded by a Rate Limiter call made after the previous request.
C9_EveryRequestPaced ==
    /\ bootReq.kind # "none" => bootReq.paced
    /\ \A i \in 1..Len(batchReqs) : batchReqs[i].paced

\* C9 as amended: every search request was preceded by a Rate Limiter call
\* made after the previous request; the bootstrap request, the first request
\* of a client, was sent without one.
C9_SearchRequestsPaced ==
    /\ \A i \in 1..Len(batchReqs) : batchReqs[i].paced
    /\ bootReq.kind # "none" => ~bootReq.paced

C9_Witness ==
    /\ site = "indeed"
    /\ batchNo = 2
    /\ Len(batchReqs) = 2
    /\ LastBatchReq.kind = "graphql_post"
    /\ bootReq.kind = "landing_get"

\* C10: every Twitter search request is sent with the client's guest token
\* in its X-Guest-Token header.
C10_GuestTokenSent ==
    (site = "twitter" /\ lastReq.kind = "timeline_get")
    => /\ "X-Guest-Token" \in DOMAIN lastReq.sent
       /\ lastReq.sent["X-Guest-Token"] = headers["X-Guest-Token"]

\* C11: construction raises exactly when the bootstrap response is not a 200
\* or, for Twitter, is a 200 without a guest_token field; a 200 landing page
\* without the Indeed meta token, the Indeed script token or the Yelp token
\* gives a usable client whose missing token is null; a client whose
\* construction raised never sends a search request.
C11_ConstructionRaisesIffBootstrapFails ==
    pc # "new" =>
      /\ pc = "ctor_failed" <=>
            /\ bootReq.kind # "none"
            /\ \/ ~bootReq.ok
               \/ site = "twitter" /\ "guest_token" \notin bootReq.found
      /\ pc = "ctor_failed" => nReq = 0
      /\ (site = "indeed" /\ bootReq.ok) =>
            /\ csrf_token = None <=> "meta" \notin bootReq.found
            /\ indeed_csrf_token = None <=> "script" \notin bootReq.found
      /\ (site = "yelp" /\ bootReq.ok) =>
            (csrf_token = None <=> "script" \notin bootReq.found)

C11_Witness ==
    /\ site = "indeed"
    /\ bootReq.kind = "landing_get"
    /\ bootReq.ok
    /\ bootReq.found = {}
    /\ csrf_token = None
    /\ indeed_csrf_token = None
    /\ nReq >= 1

\* C12: a Yelp client whose bootstrap found no CSRF token never sends a
\* GraphQL POST, and each batch of search_all is served by exactly one
\* results-page GET: the requests sent are as many as the batches started,
\* less the one of a batch whose GET is still to come.
C12_NoTokenNoGraphql ==
    (site = "yelp" /\ pc \notin {"new", "ctor_failed"} /\ csrf_token = None)
    => /\ lastReq.kind \in {"none", "page_get"}
       /\ \A i \in 1..Len(batchReqs) : batchReqs[i].kind = "page_get"
       /\ Len(batchReqs) <= 1
       /\ nReq = IF pc \in {"y_graphql", "y_search", "y_get"}
                 THEN batchNo - 1 ELSE batchNo

C12_Witness ==
    /\ site = "yelp"
    /\ csrf_token = None
    /\ batchNo = 2
    /\ nReq = 2
    /\ Len(batchReqs) = 1
    /\ yieldedInBatch >= 1

\* the last request sent belongs to the batch in progress
LastReqInBatch == lastReq.kind # "none" /\ lastReq.batch = batchNo

\* C13: Indeed search: a batch has at most two requests, the GET first and
\* the POST second; when the fetched page has no mosaic identifier the call
\* returns the markup-parsed jobs of that page after the GET alone, with or
\* without the GraphQL token; when the page has the identifier and the token
\* is held, nothing is returned from the page and the POST follows the GET.
C13_MarkupAfterOneRequest ==
    site = "indeed" =>
      /\ Len(batchReqs) <= 2
      /\ Len(batchReqs) >= 1 => batchReqs[1].kind = "page_get"
      /\ Len(batchReqs) = 2 => batchReqs[2].kind = "graphql_post"
      /\ (/\ LastReqInBatch
          /\ lastReq.kind = "page_get"
          /\ lastReq.reply.ok
          /\ ~lastReq.reply.mosaic)
         => /\ Len(batchReqs) = 1
            /\ shape = "html"
            /\ items = lastReq.reply.n
            /\ pc \in {"in_iter", "in_resume", "in_inter_pace", "loop",
                        "done"}
      /\ (/\ LastReqInBatch
          /\ lastReq.kind = "page_get"
          /\ lastReq.reply.ok
          /\ lastReq.reply.mosaic
          /\ indeed_csrf_token # None)
         => /\ pc \in {"in_gql_pace", "in_post"}
            /\ yieldedInBatch = 0
      /\ (LastReqInBatch /\ lastReq.kind = "graphql_post")
         => /\ Len(batchReqs) = 2
            /\ batchReqs[1].ok

C13_Witness ==
    /\ site = "indeed"
    /\ indeed_csrf_token # None
    /\ LastReqInBatch
    /\ lastReq.kind = "page_get"
    /\ ~lastReq.reply.mosaic
    /\ shape = "html"
    /\ yieldedInBatch >= 1
    /\ batchNo = 2

\* C14: Indeed search: when the fetched page has the mosaic identifier and
\* the GraphQL token was never obtained, the call raises at once: the GET is
\* the only request of the batch, search_all is in its raised state, and no
\* job of that page is yielded; no POST is ever sent without the token.
C14_NoTokenRaisesWithoutPost ==
    site = "indeed" =>
      /\ (/\ LastReqInBatch
          /\ lastReq.kind = "page_get"
          /\ lastReq.reply.ok
          /\ lastReq.reply.mosaic
          /\ indeed_csrf_token = None)
         => /\ pc = "raised"
            /\ Len(batchReqs) = 1
            /\ yieldedInBatch = 0
      /\ lastReq.kind = "graphql_post" => indeed_csrf_token # None
      /\ pc \in {"in_gql_pace", "in_post"} => indeed_csrf_token # None

C14_Witness ==
    /\ site = "indeed"
    /\ indeed_csrf_token = None
    /\ pc = "raised"
    /\ lastReq.kind = "page_get"
    /\ lastReq.reply.ok
    /\ lastReq.reply.mosaic
    /\ batchNo = 2
    /\ yielded >= 1

\* a raw field that is filled: present, not null, not empty
Filled(d, k) ==
    /\ d.t = "dict"
    /\ k \in DOMAIN d.v
    /\ d.v[k].t \notin {"absent", "null"}
    /\ Len(d.v[k].v) > 0

\* C15: a call of a normalisation function on a partial raw record returns
\* a record, never raises, and the fields whose raw value is not filled are
\* null (or the empty list): the tweet's text, hashtags and media, the job's
\* company, salary and url, the business's url and city.
C15_NormalizationNeverRaises ==
    (pc = "returned" /\ raw.fn # "_format_location") =>
      /\ out.t # "raised"
      /\ raw.fn = "extract_tweet_data" =>
            /\ ~Filled(raw.arg, "legacy") =>
                  (out.v["text"] = Null /\ out.v["hashtags"] = EmptyList
                   /\ out.v["media"] = EmptyList)
      /\ raw.fn = "search_all_job" =>
            LET job_data == raw.arg.v["job"]
            IN /\ ~Filled(job_data, "company") => out.v["company"] = Null
               /\ ~Filled(job_data, "salarySnippet") => out.v["salary"] = Null
               /\ ~Filled(job_data, "key") => out.v["url"] = Null
      /\ raw.fn = "_extract_from_initial_state" =>
            \A i \in 1..Len(out.v) :
               LET business_data == raw.arg.v[i].v["business"]
               IN /\ ~Filled(business_data, "businessUrl")
                     => out.v[i].v["url"] = Null
                  /\ ~Filled(business_data, "neighborhoods")
                     => out.v[i].v["location"].v["city"] = Null

\* C17: _format_location returns 'city, state' when both are filled, the one
\* that is filled when only one of them is, the country when it is filled and
\* neither city nor state is, and 'Remote' when none is filled.
C17_FormatLocation ==
    (pc = "returned" /\ raw.fn = "_format_location") =>
      LET loc == raw.arg
          city == Filled(loc, "city")
          state == Filled(loc, "state")
          country == Filled(loc, "country")
      IN out = CASE city /\ state ->
                      Str(loc.v["city"].v \o <<", ">> \o loc.v["state"].v)
                 [] city /\ ~state -> loc.v["city"]
                 [] ~city /\ state -> loc.v["state"]
                 [] ~city /\ ~state /\ country -> loc.v["country"]
                 [] OTHER -> Str(<<"Remote">>)

C17_Witness ==
    /\ pc = "returned"
    /\ raw.fn = "_format_location"
    /\ Filled(raw.arg, "country")
    /\ Filled(raw.arg, "state")
    /\ raw.arg.v["city"] = Str(<<>>)
    /\ out = S("TX")

\* C16: no driver is ever ended by the failure of one record's
\* normalisation: the failing record is skipped and the loop goes on.
C16_RecordFailureNeverEndsRun ==
    pc # "record_raised"

C19_CursorChain ==
    [][site = "twitter" =>
         /\ nReq' = nReq + 1 =>
               lastReq'.cursor = IF nReq = 0 THEN None
                                 ELSE lastReq.reply.cursor
         /\ (nReq >= 1 /\ lastReq.reply.cursor = None) => nReq' = nReq]_vars

C19_Witness ==
    /\ site = "twitter"
    /\ nReq = 3
    /\ lastReq.cursor = "c2"
    /\ lastReq.reply.cursor = None
    /\ pc = "done"
    /\ yielded < max_results

\* the continuation signal of the response that served the batch
IndeedResponseHasMore ==
    IF lastReq.kind = "graphql_post" THEN lastReq.reply.more
    ELSE lastReq.reply.n >= lastReq.limit

\* C20: Indeed: after a non-empty batch that leaves the count below
\* max_results, search_all goes on to the next page exactly when the
\* structured response had a nextPageToken or the markup-parsed response had
\* at least as many jobs as were asked for.
C20_NextPageIffSignal ==
    (site = "indeed" /\ LastReqInBatch /\ lastReq.reply.ok) =>
      /\ pc = "in_inter_pace" =>
            /\ IndeedResponseHasMore
            /\ page = batchNo
            /\ results_count < max_results
      /\ (/\ pc = "done"
          /\ items > 0
          /\ results_count < max_results)
         => ~IndeedResponseHasMore

C20_Witness ==
    /\ site = "indeed"
    /\ pc = "done"
    /\ lastReq.kind = "graphql_post"
    /\ lastReq.reply.n = lastReq.limit
    /\ ~lastReq.reply.more
    /\ results_count < max_results
    /\ yieldedInBatch = items

\* C21: Yelp: after a non-empty batch that leaves the count below
\* max_results, search_all goes on to another batch exactly when the number
\* of records yielded is below the total of the response that served the
\* batch; every request of a batch has as offset the sum of the batch sizes
\* asked for by the batches before it.
C21_NextBatchIffBelowTotal ==
    site = "yelp" =>
      /\ lastReq.kind # "none" => lastReq.start = lastReq.before
      /\ (LastReqInBatch /\ lastReq.reply.ok) =>
            /\ pc = "y_inter_pace" =>
                  /\ yielded < lastReq.reply.total
                  /\ yielded < max_results
                  /\ offset = lastReq.start + lastReq.limit
            /\ (/\ pc = "done"
                /\ items > 0
                /\ yielded < max_results)
               => yielded >= lastReq.reply.total

C21_Witness ==
    /\ site = "yelp"
    /\ lastReq.batch = 2
    /\ lastReq.kind = "page_get"
    /\ lastReq.start >= 1
    /\ lastReq.reply.path = "state"
    /\ pc = "done"
    /\ items > 0
    /\ yielded < max_results

\* C22: in every driver the Rate Limiter calls made between batches are one
\* per pair of successive batches: one fewer than the batches started, and
\* as many while the loop test that follows such a call is still to come, so
\* none follows the last batch.  Their bounds are 3 to 6 s (Twitter) and 3 to
\* 5 s (Indeed, Yelp), each at least the bounds of the call made before a
\* request, 2 to 5 s and 2 to 4 s.
C22_OneInterBatchPace ==
    /\ limiter.inter = IF pc = "loop" THEN batchNo
                       ELSE IF batchNo = 0 THEN 0
                       ELSE batchNo - 1
    /\ limiter.inter > 0 =>
          /\ limiter.between =
                IF site = "twitter" THEN <<3, 6>> ELSE <<3, 5>>
          /\ limiter.between[1] >= limiter.within[1]
          /\ limiter.between[2] >= limiter.within[2]
    /\ limiter.calls > limiter.inter =>
          limiter.within = IF site = "twitter" THEN <<2, 5>> ELSE <<2, 4>>

C22_Witness ==
    /\ site = "indeed"
    /\ pc = "done"
    /\ batchNo = 3
    /\ limiter.inter = 2
    /\ yielded = max_results

\* C23: search_all is pull-driven.  A step that sends a search request or
\* calls the Rate Limiter is taken only while a next() of the consumer is
\* outstanding, that is, after the consumer asked for a record beyond all
\* those yielded so far (so for batch k+1, beyond those of batch k, and for
\* the first batch, after the first record was asked for); while the
\* consumer asks for nothing, no request is sent and the Rate Limiter is not
\* called.
C23_PullDriven ==
    [][(nReq' # nReq \/ limiter' # limiter)
          => (demand /\ demand' /\ asked = yielded + 1)]_vars

C23_Witness ==
    /\ site = "indeed"
    /\ pc = "in_resume"
    /\ ~demand
    /\ batchNo = 2
    /\ nReq >= 2
    /\ limiter.inter = 1
    /\ yieldedInBatch = 1
    /\ asked = yielded

\* C24: once the constructor has returned or raised, no step of search,
\* search_graphql or search_all, successful or failing, changes the stored
\* tokens or the stored header mapping of the client; the headers of a
\* GraphQL POST (the token header, and Content-Type for Indeed) are on the
\* request that is sent, written to a copy of the stored mapping.
C24_TokenHeader == IF site = "indeed" THEN "Indeed-CSRF-Token" ELSE "X-CSRF-Token"

C25_NothingSentAtMaximum ==
    [][/\ yielded >= max_results => (nReq' = nReq /\ limiter' = limiter)
       /\ (pc' \notin {"new", "ready", "ctor_failed"} /\ max_results' <= 0)
             => (yielded' = 0 /\ nReq' = 0 /\ limiter'.calls = 0)]_vars

C25_Witness ==
    /\ site = "twitter"
    /\ pc = "done"
    /\ max_results >= 2
    /\ yielded >= max_results
    /\ lastReq.reply.cursor # None
    /\ nReq = 2

\* C26: a fully consumed run of Indeed's or Yelp's search_all ends, whatever
\* the requests return, after at most max_results batches (none when
\* max_results is not positive): a batch after which the run goes on has
\* yielded at least one record, so the batches started never exceed the
\* records yielded by more than one.
C26_Ended == pc \in {"done", "raised", "record_raised"}

C26_TerminatesWithinMBatches ==
    /\ [](batchNo <= IF max_results > 0 THEN max_results ELSE 0)
    /\ [](batchNo <= yielded + 1)
    /\ [](pc \in {"in_inter_pace", "y_inter_pace"} => yieldedInBatch >= 1)
    /\ (pc = "loop") ~> C26_Ended

C26_Witness ==
    /\ site = "yelp"
    /\ pc = "done"
    /\ max_results = MaxSmallM
    /\ batchNo = max_results
    /\ yielded = max_results

====
